---- MODULE Spec2Model ----
(***************************************************************************)
(* The session / object-placement state machine of the three revisions of  *)
(* the AR component of this repository:                                    *)
(*   "ARViewer"   src/src/components/ARViewer.tsx                          *)
(*   "ARShoeApp"  src/unnamed/part_000                                     *)
(*   "ARViewerV1" src/unnamed/part_001                                     *)
(* One behaviour is one mounted instance of one revision on one platform.  *)
(* Every handler of the component is one action; the host platform (the    *)
(* immersive-session API, the rendering library's frame loop, the window)  *)
(* delivers the events in any order the event loop allows.                 *)
(***************************************************************************)
EXTENDS Integers, FiniteSets, Sequences, TLC

\* ---- bounds of the model ------------------------------------------------
MaxGen == 2        \* renderer/scene/object generations created in a behaviour
MaxSess == 2       \* sessions the platform grants in a behaviour
MaxCalls == 2      \* start invocations in flight at the same time
MaxAdds == 2       \* placements counted in one session
MaxRot == 1        \* rotation increments applied to one object
MaxPos == 1        \* distinct non-origin positions the platform reports
MaxDim == 2        \* distinct viewport dimensions

Variants == {"ARViewer", "ARShoeApp", "ARViewerV1"}
Platforms == {"absent", "yes", "no", "reject"}
Rends == 1..MaxGen
\* The renderer the button-bound startARSession of ARViewerV1 constructs for itself: it is
\* in no ref, has no animation loop and is never disposed, so all of them are alike.
LocalRend == MaxGen + 1
Sessions == 1..MaxSess

VARIABLES
  variant,            \* which revision is mounted
  xr,                 \* the platform: navigator.xr absent, or what isSessionSupported answers
  mounted,            \* the component is mounted (effects not yet cleaned up)
  probe,              \* "pending" while the isSessionSupported promise is outstanding
  modelLoaded,        \* ARShoeApp: the GLTF load callback has run
  isARSupported,      \* useState
  isARSessionActive,  \* useState
  isObjectPlaced,     \* useState (ARViewer) / let objectPlaced (ARViewerV1)
  effectDeps,         \* ARViewer: isObjectPlaced as of the last run of the scene effect
  gen,                \* the renderer/scene/object the component's refs point at (0: none)
  disposed,           \* renderers on which dispose() was called
  loopCb,             \* per renderer: the callback given to setAnimationLoop
  ctrlL,              \* per renderer: isObjectPlaced captured by each select listener on controller 0
  ctrlPos,            \* per renderer: position in controller 0's matrixWorld (0: identity)
  controllerRef,      \* ARViewer: renderer whose controller is in controllerRef.current (0: null)
  added,              \* generations whose object is in its scene graph
  pos,                \* per generation: the object's position (0: origin)
  rot,                \* per generation: number of rotation increments applied
  viewport,           \* window.innerWidth/innerHeight, as an abstract dimension
  camAspect,          \* aspect of the current camera
  surfSize,           \* size of the current drawing surface
  sess,               \* per session: platform state and the listeners on it
  rejecting,          \* start invocations awaiting a requestSession that will reject
  adds,               \* per session: scene.add(object) calls made by select handlers
  posWrites,          \* per session: position assignments made by select handlers
  ev                  \* the handler that ran last, with its input and what it reported

vars == <<variant, xr, mounted, probe, modelLoaded, isARSupported, isARSessionActive,
          isObjectPlaced, effectDeps, gen, disposed, loopCb, ctrlL, ctrlPos,
          controllerRef, added, pos, rot, viewport, camAspect, surfSize, sess, rejecting,
          adds, posWrites, ev>>

\* ---- records ------------------------------------------------------------
\* name: the handler; s: the session, r: the renderer it is about
\* (0: none); pose: the position the event carried (0: none); log: console.error was
\* called; err: an exception or rejection escaped the handler; acted: a listener of the
\* component ran.
Ev(name, s, r, pose, log, err, acted) ==
  [name |-> name, s |-> s, r |-> r, pose |-> pose, log |-> log, err |-> err, acted |-> acted]

\* st: the platform's state of the session; cap: isObjectPlaced in the render whose
\* startARSession requested it; rend: the renderer given to setSession (0: none yet);
\* bind: where that setSession stands; endEvt: the "end" event; endL, selL: the
\* component's "end" and "select" listeners on the session.
NoSession == [st |-> "unused", cap |-> FALSE, rend |-> 0, bind |-> "none",
              endEvt |-> "none", endL |-> FALSE, selL |-> FALSE]
GoneSession == [NoSession EXCEPT !.st = "gone"]

\* A session the platform counts as pending or active: while one exists every further
\* requestSession is rejected.
Live(s) == sess[s].st \in {"pending", "running"}

\* ARButton keeps the session it started in currentSession until its end event, and
\* offers to stop it instead of starting one.
ArButtonSession == \E s \in Sessions : sess[s].bind = "ok" /\ sess[s].endEvt # "done"

\* ---- the rendered UI ------------------------------------------------------
UnsupportedBanner == mounted /\ ~isARSupported

StartButton ==
  /\ mounted
  /\ IF variant = "ARShoeApp"
       THEN xr = "yes" /\ probe = "done" /\ ~ArButtonSession
       ELSE ~isARSessionActive /\ isARSupported

PlaceHint ==
  /\ mounted
  /\ CASE variant = "ARViewer" -> isARSessionActive /\ ~isObjectPlaced
       [] variant = "ARViewerV1" -> ~isARSessionActive
       [] OTHER -> FALSE

\* ---- mount ----------------------------------------------------------------
Init ==
  /\ variant \in Variants
  /\ xr \in Platforms
  /\ mounted = TRUE
  /\ probe = IF xr # "absent" /\ variant # "ARViewerV1" THEN "pending" ELSE "done"
  /\ modelLoaded = FALSE
  /\ isARSupported = IF variant = "ARShoeApp" THEN FALSE ELSE xr # "absent"
  /\ isARSessionActive = FALSE
  /\ isObjectPlaced = FALSE
  /\ effectDeps = FALSE
  /\ gen = IF variant = "ARViewerV1" /\ xr = "absent" THEN 0 ELSE 1
  /\ disposed = {}
  /\ loopCb = [r \in Rends |->
                 IF r # gen THEN "null"
                 ELSE CASE variant = "ARViewer" -> "capFalse"
                        [] variant = "ARViewerV1" -> "live"
                        [] OTHER -> "draw"]
  /\ ctrlL = [r \in Rends |-> {}]
  /\ ctrlPos = [r \in Rends |-> 0]
  /\ controllerRef = 0
  /\ added = {}
  /\ pos = [g \in Rends |-> 0]
  /\ rot = [g \in Rends |-> 0]
  /\ viewport = 1
  /\ camAspect = IF gen = 0 THEN 0 ELSE 1
  /\ surfSize = IF gen = 0 THEN 0 ELSE 1
  /\ sess = [s \in Sessions |-> NoSession]
  /\ rejecting = 0
  /\ adds = [s \in Sessions |-> 0]
  /\ posWrites = [s \in Sessions |-> 0]
  /\ ev = Ev("mount", 0, gen, 0, FALSE, FALSE, FALSE)

\* ---- helpers ----------------------------------------------------------------
\* A state setter called after unmount changes nothing.
SetState(old, new) == IF mounted THEN new ELSE old

\* renderer.xr.getSession(): the session last given to setSession(r) whose end event
\* has not been dispatched yet (0: null).
XrSession(r) ==
  LET S == {s \in Sessions : sess[s].rend = r /\ sess[s].endEvt # "done"}
  IN IF S = {} THEN 0 ELSE CHOOSE s \in S : \A t \in S : t <= s

\* session.end() on what getSession() returns: an already ended session stays as it is.
EndSessionOf(r) ==
  [s \in Sessions |->
     IF r # 0 /\ s = XrSession(r) /\ sess[s].st = "running"
       THEN [sess[s] EXCEPT !.st = "ended", !.endEvt = "queued"]
       ELSE sess[s]]

\* A session whose end event has been dispatched and whose startARSession has returned
\* takes no further part: its record and its counters are dropped.
Over(q) == q.st = "ended" /\ q.endEvt = "done" /\ q.bind # "await"

Retire(S) == [s \in Sessions |-> IF Over(S[s]) THEN GoneSession ELSE S[s]]

RetireCount(S, n) == [s \in Sessions |-> IF Over(S[s]) THEN 0 ELSE n[s]]

\* Invocations of startARSession that stand at one of its two awaits.
InFlight ==
  rejecting + Cardinality({s \in Sessions : sess[s].st = "pending" \/ sess[s].bind = "await"})

FreeSession == IF \E s \in Sessions : sess[s].st = "unused"
                 THEN CHOOSE s \in Sessions : sess[s].st = "unused" /\ \A t \in Sessions : sess[t].st = "unused" => s <= t
                 ELSE 0

\* ---- capability probe -------------------------------------------------------
ProbeSettle ==
  /\ probe = "pending"
  /\ probe' = "done"
  /\ isARSupported' =
       IF variant = "ARViewer" THEN SetState(isARSupported, xr = "yes")
       ELSE IF xr = "reject" THEN isARSupported
       ELSE SetState(isARSupported, xr = "yes")
  /\ ev' = Ev("probe", 0, 0, 0, variant = "ARShoeApp" /\ xr = "reject", FALSE, TRUE)
  /\ UNCHANGED <<variant, xr, mounted, modelLoaded, isARSessionActive, isObjectPlaced,
                 effectDeps, gen, disposed, loopCb, ctrlL, ctrlPos, controllerRef,
                 added, pos, rot, viewport, camAspect, surfSize, sess, rejecting, adds,
                 posWrites>>

\* ARShoeApp: the loader's onLoad callback registers the "sessionstart" listener.
ModelLoad ==
  /\ variant = "ARShoeApp"
  /\ ~modelLoaded
  /\ modelLoaded' = TRUE
  /\ ev' = Ev("modelLoad", 0, gen, 0, FALSE, FALSE, TRUE)
  /\ UNCHANGED <<variant, xr, mounted, probe, isARSupported, isARSessionActive,
                 isObjectPlaced, effectDeps, gen, disposed, loopCb, ctrlL, ctrlPos,
                 controllerRef, added, pos, rot, viewport, camAspect, surfSize, sess,
                 rejecting, adds, posWrites>>

\* ---- session controller -----------------------------------------------------
\* The click on the start button: startARSession runs up to its first await. The
\* platform decides at the call whether the request can be granted at all; the
\* click handler first flushes a scene effect that is still due.
ClickStart(grant) ==
  /\ StartButton
  /\ isObjectPlaced = effectDeps
  /\ InFlight < MaxCalls
  /\ grant => /\ xr = "yes"
              /\ \A s \in Sessions : ~Live(s)
              /\ FreeSession # 0
  /\ LET s == IF grant THEN FreeSession ELSE 0
     IN /\ sess' = IF grant
                     THEN [sess EXCEPT ![s].st = "pending", ![s].cap = isObjectPlaced]
                     ELSE sess
        /\ rejecting' = IF grant THEN rejecting ELSE rejecting + 1
        /\ ev' = Ev("clickStart", s, 0, 0, FALSE, FALSE, TRUE)
  /\ UNCHANGED <<variant, xr, mounted, probe, modelLoaded, isARSupported,
                 isARSessionActive, isObjectPlaced, effectDeps, gen, disposed,
                 loopCb, ctrlL, ctrlPos, controllerRef, added, pos, rot, viewport,
                 camAspect, surfSize, adds, posWrites>>

\* requestSession resolves: the function goes on to setSession and awaits it. The
\* platform runs its tasks in the order it queued them: what it owes to an earlier
\* session (its end event, the settling of its setSession) comes before it resolves
\* the request for a later one.
RequestResolve(s) ==
  /\ sess[s].st = "pending"
  /\ \A t \in Sessions \ {s} : sess[t].st \in {"unused", "gone"}
  /\ LET r == IF variant = "ARViewerV1" THEN LocalRend ELSE gen
     IN /\ sess' = [sess EXCEPT ![s].st = "running", ![s].rend = r, ![s].bind = "await"]
        /\ ev' = Ev("requestOk", s, r, 0, FALSE, FALSE, TRUE)
  /\ UNCHANGED <<variant, xr, mounted, probe, modelLoaded, isARSupported,
                 isARSessionActive, isObjectPlaced, effectDeps, gen, disposed, loopCb,
                 ctrlL, ctrlPos, controllerRef, added, pos, rot, viewport, camAspect,
                 surfSize, rejecting, adds, posWrites>>

\* A catch block that logs and leaves the session state as it found it.
ActiveAfterCatchKept == isARSessionActive

\* What the catch block of startARSession does (ARButton has none).
ActiveAfterCatch ==
  IF variant = "ARShoeApp" THEN isARSessionActive ELSE SetState(isARSessionActive, FALSE)

\* A catch block that resets the placement state as well.
PlacedAfterCatchReset == SetState(isObjectPlaced, FALSE)

\* The catch block has no setIsObjectPlaced call.
PlacedAfterCatch == isObjectPlaced

\* requestSession rejects.
RequestReject ==
  /\ rejecting > 0
  /\ rejecting' = rejecting - 1
  /\ isARSessionActive' = ActiveAfterCatch
  /\ ev' = IF variant = "ARShoeApp"
             THEN Ev("arButtonFailed", 0, 0, 0, FALSE, TRUE, FALSE)
             ELSE Ev("startFailed", 0, 0, 0, TRUE, FALSE, TRUE)
  /\ isObjectPlaced' = PlacedAfterCatch
  /\ UNCHANGED <<variant, xr, mounted, probe, modelLoaded, isARSupported,
                 effectDeps, gen, disposed, loopCb, ctrlL, ctrlPos, controllerRef,
                 added, pos, rot, viewport, camAspect, surfSize, sess, adds, posWrites>>

\* setSession resolves: the rest of startARSession. On a session that has ended in
\* the meantime the library's promise may resolve or reject.
BindResolve(s) ==
  /\ sess[s].bind = "await"
  /\ LET r == sess[s].rend
         bound == [sess EXCEPT
                     ![s].bind = "ok",
                     ![s].endL = (variant # "ARShoeApp"),
                     ![s].selL = (variant = "ARShoeApp" /\ modelLoaded)]
     IN /\ sess' = Retire(bound)
        /\ adds' = RetireCount(bound, adds)
        /\ posWrites' = RetireCount(bound, posWrites)
        /\ ctrlL' = IF variant = "ARViewer"
                      THEN [ctrlL EXCEPT ![r] = @ \cup {sess[s].cap}]
                      ELSE ctrlL
        /\ controllerRef' = IF variant = "ARViewer" THEN r ELSE controllerRef
        /\ isARSessionActive' =
             IF variant = "ARShoeApp" THEN isARSessionActive ELSE SetState(isARSessionActive, TRUE)
        /\ ev' = Ev("bindOk", s, r, 0, FALSE, FALSE, TRUE)
  /\ UNCHANGED <<variant, xr, mounted, probe, modelLoaded, isARSupported, isObjectPlaced,
                 effectDeps, gen, disposed, loopCb, ctrlPos, added, pos, rot,
                 viewport, camAspect, surfSize, rejecting>>

\* setSession rejects: the catch block. The session itself is not ended.
BindReject(s) ==
  /\ sess[s].bind = "await"
  /\ LET failed == [sess EXCEPT ![s].bind = "failed"]
     IN /\ sess' = Retire(failed)
        /\ adds' = RetireCount(failed, adds)
        /\ posWrites' = RetireCount(failed, posWrites)
  /\ isARSessionActive' = ActiveAfterCatch
  /\ ev' = IF variant = "ARShoeApp"
             THEN Ev("arButtonFailed", s, sess[s].rend, 0, FALSE, TRUE, FALSE)
             ELSE Ev("bindFailed", s, sess[s].rend, 0, TRUE, FALSE, TRUE)
  /\ isObjectPlaced' = PlacedAfterCatch
  /\ UNCHANGED <<variant, xr, mounted, probe, modelLoaded, isARSupported,
                 effectDeps, gen, disposed, loopCb, ctrlL, ctrlPos, controllerRef,
                 added, pos, rot, viewport, camAspect, surfSize, rejecting>>

\* The platform (or the user, through the platform's own UI) ends a running session.
PlatformEnd(s) ==
  /\ sess[s].st = "running"
  /\ sess' = [sess EXCEPT ![s].st = "ended", ![s].endEvt = "queued"]
  /\ ev' = Ev("platformEnd", s, sess[s].rend, 0, FALSE, FALSE, FALSE)
  /\ UNCHANGED <<variant, xr, mounted, probe, modelLoaded, isARSupported,
                 isARSessionActive, isObjectPlaced, effectDeps, gen, disposed,
                 loopCb, ctrlL, ctrlPos, controllerRef, added, pos, rot, viewport,
                 camAspect, surfSize, rejecting, adds, posWrites>>

\* The session's "end" event is dispatched: the listener startARSession registered, if
\* it was registered by then.
EndEvent(s) ==
  /\ sess[s].endEvt = "queued"
  /\ LET done == [sess EXCEPT ![s].endEvt = "done"]
     IN /\ sess' = Retire(done)
        /\ adds' = RetireCount(done, adds)
        /\ posWrites' = RetireCount(done, posWrites)
  /\ isARSessionActive' =
       IF sess[s].endL THEN SetState(isARSessionActive, FALSE) ELSE isARSessionActive
  /\ isObjectPlaced' =
       IF sess[s].endL /\ variant = "ARViewer" THEN SetState(isObjectPlaced, FALSE)
       ELSE isObjectPlaced
  /\ ev' = Ev("sessionEnd", s, sess[s].rend, 0, FALSE, FALSE, sess[s].endL)
  /\ UNCHANGED <<variant, xr, mounted, probe, modelLoaded, isARSupported, effectDeps,
                 gen, disposed, loopCb, ctrlL, ctrlPos, controllerRef, added, pos,
                 rot, viewport, camAspect, surfSize, rejecting>>

\* ---- placement handler ------------------------------------------------------
\* What a select event carries. hit is the outcome of the hit-test lookup ARShoeApp
\* makes ("pose": a result with a pose); for the two ARViewer revisions only the
\* controller's pose matters: p is its position, 0 when the platform reports none.
Misses == {"noRefSpace", "noSource", "reject", "noFrame", "empty", "nullPose"}

SelectInputs ==
  IF variant = "ARShoeApp"
    THEN [hit : Misses, p : {0}] \cup [hit : {"pose"}, p : 1..MaxPos]
    ELSE [hit : {"nullPose"}, p : {0}] \cup [hit : {"pose"}, p : 1..MaxPos]

\* handleSelect as registered on the controller: it sees the isObjectPlaced of the
\* render in which startARSession was invoked (cap), never a later one.
ViewerPlaces(r) ==
  /\ FALSE \in ctrlL[r]
  /\ gen # 0
  /\ controllerRef # 0

\* The select listener ARShoeApp puts on the session in its "sessionstart" listener.
ShoePlaces(s, in) == sess[s].selL /\ in.hit = "pose"

Select(s, in) ==
  /\ sess[s].st = "running"
  /\ sess[s].rend # 0
  /\ adds[s] < MaxAdds
  /\ in \in SelectInputs
  /\ LET r == sess[s].rend
         places == CASE variant = "ARViewer" -> ViewerPlaces(r)
                     [] variant = "ARShoeApp" -> ShoePlaces(s, in)
                     [] OTHER -> FALSE
         listens == CASE variant = "ARViewer" -> ctrlL[r] # {}
                      [] variant = "ARShoeApp" -> sess[s].selL
                      [] OTHER -> FALSE
         cp == IF variant # "ARShoeApp" /\ in.p # 0
                 THEN [ctrlPos EXCEPT ![r] = in.p] ELSE ctrlPos
         at == IF variant = "ARViewer" THEN cp[controllerRef] ELSE in.p
     IN /\ ctrlPos' = cp
        /\ added' = IF places THEN added \cup {gen} ELSE added
        /\ pos' = IF places THEN [pos EXCEPT ![gen] = at] ELSE pos
        /\ adds' = [adds EXCEPT ![s] = IF places THEN @ + 1 ELSE @]
        /\ posWrites' = [posWrites EXCEPT ![s] = IF places THEN @ + 1 ELSE @]
        /\ isObjectPlaced' =
             IF places /\ variant = "ARViewer" THEN SetState(isObjectPlaced, TRUE)
             ELSE isObjectPlaced
        /\ ev' = Ev("select", s, r, in.p, FALSE,
                    variant = "ARShoeApp" /\ sess[s].selL /\ in.hit = "reject", listens)
  /\ UNCHANGED <<variant, xr, mounted, probe, modelLoaded, isARSupported,
                 isARSessionActive, effectDeps, gen, disposed, loopCb, ctrlL,
                 controllerRef, rot, viewport, camAspect, surfSize, sess, rejecting>>

\* ---- render loop ------------------------------------------------------------
\* The library calls the registered callback from the window's frame loop, which
\* dispose() stops, and from the frame loop of a session presenting on the renderer.
FrameSource(r) ==
  \/ r \notin disposed
  \/ \E s \in Sessions : sess[s].st = "running" /\ sess[s].rend = r /\ sess[s].bind = "ok"

\* Whether the callback registered on r rotates the object on this tick.
Spins(r) ==
  CASE loopCb[r] = "capTrue" -> gen # 0
    [] loopCb[r] = "live" -> isObjectPlaced
    [] OTHER -> FALSE

Frame(r) ==
  /\ r \in 1..gen
  /\ loopCb[r] # "null"
  /\ FrameSource(r)
  /\ Spins(r) => rot[gen] < MaxRot
  /\ rot' = IF Spins(r) THEN [rot EXCEPT ![gen] = @ + 1] ELSE rot
  /\ ev' = Ev("frame", 0, r, 0, FALSE, FALSE, TRUE)
  /\ UNCHANGED <<variant, xr, mounted, probe, modelLoaded, isARSupported,
                 isARSessionActive, isObjectPlaced, effectDeps, gen, disposed,
                 loopCb, ctrlL, ctrlPos, controllerRef, added, pos, viewport, camAspect,
                 surfSize, sess, rejecting, adds, posWrites>>

\* ---- resize -----------------------------------------------------------------
\* Whether a resize listener of the component is on the window.
ResizeListens == variant # "ARShoeApp" /\ gen # 0

Resize(d) ==
  /\ mounted
  /\ d \in 1..MaxDim
  /\ d # viewport
  /\ viewport' = d
  /\ camAspect' = IF ResizeListens THEN d ELSE camAspect
  /\ surfSize' = IF ResizeListens THEN d ELSE surfSize
  /\ ev' = Ev("resize", 0, gen, 0, FALSE, FALSE, ResizeListens)
  /\ UNCHANGED <<variant, xr, mounted, probe, modelLoaded, isARSupported,
                 isARSessionActive, isObjectPlaced, effectDeps, gen, disposed,
                 loopCb, ctrlL, ctrlPos, controllerRef, added, pos, rot, sess, rejecting,
                 adds, posWrites>>

\* ---- teardown ---------------------------------------------------------------
\* The cleanup function of the scene effect, as each revision wrote it: its statements
\* in the order they run. ARViewerV1 on a platform without navigator.xr returned from
\* the effect before it had a cleanup to return.
CleanupSteps ==
  CASE variant = "ARViewer" ->
         <<"dispose", "removeCanvas", "unlisten", "deregister", "endSession">>
    [] variant = "ARShoeApp" -> <<"dispose">>
    [] OTHER -> IF gen = 0 THEN <<>>
                ELSE <<"unlisten", "removeCanvas", "deregister", "endSession">>

Runs(step) == \E i \in 1..Len(CleanupSteps) : CleanupSteps[i] = step

DisposedAfterCleanup ==
  IF Runs("dispose") /\ gen # 0 THEN disposed \cup {gen} ELSE disposed

LoopAfterCleanup ==
  IF Runs("deregister") /\ gen # 0 THEN [loopCb EXCEPT ![gen] = "null"] ELSE loopCb

SessAfterCleanup ==
  IF Runs("endSession") THEN EndSessionOf(gen) ELSE sess

Unmount ==
  /\ mounted
  /\ mounted' = FALSE
  /\ disposed' = DisposedAfterCleanup
  /\ loopCb' = LoopAfterCleanup
  /\ sess' = SessAfterCleanup
  /\ ev' = Ev("unmount", 0, gen, 0, FALSE, FALSE, TRUE)
  /\ UNCHANGED <<variant, xr, probe, modelLoaded, isARSupported, isARSessionActive,
                 isObjectPlaced, effectDeps, gen, ctrlL, ctrlPos, controllerRef,
                 added, pos, rot, viewport, camAspect, surfSize, rejecting, adds, posWrites>>

\* ARViewer: startAnimationLoop depends on isObjectPlaced, so a change of it re-runs
\* the scene effect: the cleanup, then initializeScene and startAnimationLoop anew.
RerunEffect ==
  /\ variant = "ARViewer"
  /\ mounted
  /\ isObjectPlaced # effectDeps
  /\ gen < MaxGen
  /\ disposed' = DisposedAfterCleanup
  /\ sess' = SessAfterCleanup
  /\ gen' = gen + 1
  /\ loopCb' = [LoopAfterCleanup EXCEPT
                  ![gen + 1] = IF isObjectPlaced THEN "capTrue" ELSE "capFalse"]
  /\ camAspect' = viewport
  /\ surfSize' = viewport
  /\ effectDeps' = isObjectPlaced
  /\ ev' = Ev("effect", 0, gen + 1, 0, FALSE, FALSE, TRUE)
  /\ UNCHANGED <<variant, xr, mounted, probe, modelLoaded, isARSupported,
                 isARSessionActive, isObjectPlaced, ctrlL, ctrlPos, controllerRef, added,
                 pos, rot, viewport, rejecting, adds, posWrites>>

\* ---- the component ----------------------------------------------------------
Next ==
  \/ ProbeSettle
  \/ ModelLoad
  \/ \E grant \in BOOLEAN : ClickStart(grant)
  \/ \E s \in Sessions : RequestResolve(s)
  \/ RequestReject
  \/ \E s \in Sessions : BindResolve(s)
  \/ \E s \in Sessions : BindReject(s)
  \/ \E s \in Sessions : PlatformEnd(s)
  \/ \E s \in Sessions : EndEvent(s)
  \/ \E s \in Sessions : \E in \in [hit : Misses \cup {"pose"}, p : 0..MaxPos] : Select(s, in)
  \/ \E r \in Rends : Frame(r)
  \/ \E d \in 1..MaxDim : Resize(d)
  \/ Unmount
  \/ RerunEffect

Spec == Init /\ [][Next]_vars

\* What the event loop owes: a settled promise runs its continuation and a queued event
\* is dispatched. Clicks, select events, frames, resizes, the platform ending a session
\* and the unmount are up to the user and the platform.
Fairness ==
  /\ WF_vars(ProbeSettle)
  /\ WF_vars(\E s \in Sessions : RequestResolve(s))
  /\ WF_vars(RequestReject)
  /\ WF_vars(\E s \in Sessions : BindResolve(s) \/ BindReject(s))
  /\ WF_vars(\E s \in Sessions : EndEvent(s))

FairSpec == Spec /\ Fairness

\* ---- properties -------------------------------------------------------------
\* The placement state the spec speaks of: the flag of the two ARViewer revisions; in
\* ARShoeApp, which keeps no flag, that the model is in the scene.
Placed == IF variant = "ARShoeApp" THEN gen \in added ELSE isObjectPlaced

IsPlaced(g) == g \in added /\ Placed

StartFailure(e) == e.name \in {"startFailed", "bindFailed"}

\* C1 (placement idempotence): in one session no select event makes a second object
\* addition or a second position assignment, and every select event after the one that
\* placed the object leaves the object's position, the scene graph and the placement
\* state unchanged. (That the first select with a valid transform places is C10.)
C1_PlacementIdempotent ==
  [][ev'.name = "select" /\ adds[ev'.s] >= 1
       => UNCHANGED <<pos, added, isObjectPlaced, adds, posWrites>>]_vars

\* C2: in every reachable state at most one object has been added to a scene during
\* any one session.
C2_AtMostOneAddition == \A s \in Sessions : adds[s] <= 1

\* C3 (session lifecycle): when setSession has succeeded the state is active and the
\* start button is not shown; when the end event has been delivered to the component
\* the state is inactive and placement is cleared; and in a following session a select
\* event with a valid transform places the object again.
C3_SessionLifecycle ==
  /\ ev.name = "bindOk" /\ mounted /\ variant # "ARShoeApp"
       => isARSessionActive /\ ~StartButton
  /\ ev.name = "sessionEnd" /\ ev.acted /\ mounted
       => ~isARSessionActive /\ ~isObjectPlaced
  /\ ev.name = "select" /\ ev.pose # 0 /\ ev.s >= 2 /\ sess[ev.s].bind = "ok"
       => adds[ev.s] >= 1

\* C4 (capability probe): once the platform has reported immersive-AR as unsupported
\* (no navigator.xr, the query resolved false, or the query rejected) the UI shows the
\* unsupported banner and no start button.
C4_UnsupportedBanner ==
  mounted /\ probe = "done" /\ xr # "yes" => UnsupportedBanner /\ ~StartButton

\* C5 (teardown safety): no per-frame callback issues a draw call on a renderer that
\* has been disposed.
C5_NoDrawAfterDispose == ev.name = "frame" => ev.r \notin disposed

\* C6 (rotation only after placement): a frame tick increments the rotation of the
\* placed object and leaves the rotation of every object that is not placed unchanged.
C6_RotationOnlyAfterPlacement ==
  [][ev'.name = "frame"
       => \A g \in Rends : rot'[g] = IF IsPlaced(g) THEN rot[g] + 1 ELSE rot[g]]_vars

\* C7 (resize): a viewport resize event sets the camera aspect and the drawing-surface
\* size to the new dimensions and leaves placement, session and support state unchanged.
C7_Resize ==
  [][ev'.name = "resize" /\ gen # 0
       => /\ camAspect' = viewport'
          /\ surfSize' = viewport'
          /\ UNCHANGED <<isObjectPlaced, isARSessionActive, isARSupported>>]_vars

\* C8 as stated (session-request failure): when requestSession or setSession fails in
\* the mounted component, the failure is logged, the session state is inactive, the
\* placement state is unchanged and the start button is shown again.
C8_FailureShowsStartButton ==
  [][StartFailure(ev') /\ mounted
       => /\ ev'.log
          /\ ~isARSessionActive'
          /\ isObjectPlaced' = isObjectPlaced
          /\ StartButton']_vars

\* C8 as amended: ... and the start button is shown again exactly when AR is still
\* marked supported (the capability probe may have answered since the click).
C8_FailureResetsSession ==
  [][StartFailure(ev') /\ mounted
       => /\ ev'.log
          /\ ~isARSessionActive'
          /\ isObjectPlaced' = isObjectPlaced
          /\ (StartButton' <=> isARSupported')]_vars

\* C8 witness: a start whose failure was logged while another session was marked
\* active has put the mounted component back to inactive with the start button shown.
C8_Witness ==
  /\ StartFailure(ev) /\ ev.log /\ mounted
  /\ ~isARSessionActive /\ StartButton
  /\ \E s \in Sessions : sess[s].bind = "ok" /\ sess[s].st = "running"

\* C9 (absent pose): a select event that comes without a valid pose is ignored: no
\* object is added, no position is written, the placement state is unchanged and no
\* error escapes the handler.
C9_AbsentPoseIgnored ==
  [][ev'.name = "select" /\ ev'.pose = 0
       => /\ UNCHANGED <<added, pos, isObjectPlaced, adds, posWrites>>
          /\ ~ev'.err]_vars

\* C10 (placement happens): in a session started through the start button of the
\* mounted component, while the object is not placed, a select event with a valid
\* transform adds the object to the scene graph, writes the transform's position into
\* it and sets the placement state to placed.
C10_PlacementHappens ==
  [][(/\ ev'.name = "select" /\ ev'.pose # 0
      /\ mounted /\ sess[ev'.s].bind = "ok" /\ adds[ev'.s] = 0 /\ ~Placed)
       => gen \in added' /\ pos'[gen] = ev'.pose /\ Placed']_vars

\* C11 (teardown ordering): in every teardown the per-frame callback is deregistered and
\* the end of the session is requested before the drawing surface is released (the
\* renderer disposed, its canvas removed from the container).
C11_TeardownOrder ==
  [][ev'.name \in {"unmount", "effect"}
       => \A i \in 1..Len(CleanupSteps) :
            CleanupSteps[i] \in {"dispose", "removeCanvas"}
              => /\ \E j \in 1..(i - 1) : CleanupSteps[j] = "deregister"
                 /\ \E j \in 1..(i - 1) : CleanupSteps[j] = "endSession"]_vars

\* C12 (placement is monotonic): the placement state goes from placed to not placed
\* only in the step in which the end listener of a session runs; every other step
\* leaves a placed state placed.
C12_PlacedMonotonic ==
  [][Placed /\ ~Placed' => ev'.name = "sessionEnd" /\ ev'.acted]_vars

\* C12 witness: the end listener of a session has just reset the placement state that
\* the scene effect last saw as placed.
C12_Witness ==
  /\ ev.name = "sessionEnd" /\ ev.acted /\ mounted
  /\ variant = "ARViewer" /\ effectDeps /\ ~isObjectPlaced

\* C13 (cancellation): when the end listener of a session has run in the mounted
\* component, the session state is inactive, the placement state is not placed and
\* the per-frame callback is detached from the renderer.
C13_EndDetachesLoop ==
  ev.name = "sessionEnd" /\ ev.acted /\ mounted
    => /\ ~isARSessionActive
       /\ ~isObjectPlaced
       /\ gen # 0 => loopCb[gen] = "null"

\* C14 (one pending request): at most one requestSession call made by the start button
\* is unsettled at any time.
C14_OneRequestPending ==
  rejecting + Cardinality({s \in Sessions : sess[s].st = "pending"}) <= 1

\* C15 (placement keeps the session): while the object is placed and the component
\* stays mounted, the renderer and scene in use stay the same, no renderer is disposed
\* and a running session stays running unless the platform ends it.
C15_PlacementKeepsSession ==
  [][Placed /\ mounted'
       => /\ gen' = gen
          /\ disposed' = disposed
          /\ \A s \in Sessions :
               sess[s].st = "running" /\ ev'.name # "platformEnd"
                 => sess'[s].st = "running"]_vars

\* C16 (no missed end notification): whenever the platform has ended a session of the
\* mounted component, eventually the session state is inactive and the start button is
\* shown (or the component has been unmounted).
C16_EndNoticed ==
  [](ev.name = "platformEnd" /\ mounted
       => <>(~mounted \/ (~isARSessionActive /\ StartButton)))

\* C17 (no session survives teardown): after the unmount no session whose start has
\* completed is running, and no running session is bound to a disposed renderer.
C17_NoSessionAfterTeardown ==
  ~mounted
    => \A s \in Sessions :
         sess[s].st = "running"
           => sess[s].bind # "ok" /\ sess[s].rend \notin disposed

\* C18 (placed only while active): in every state of the mounted component the
\* placement state is placed only if the session state is active.
C18_PlacedImpliesActive == mounted /\ isObjectPlaced => isARSessionActive

\* C19 (tap-to-place hint): the hint is shown exactly when the session state is active
\* and the object is not placed, and never together with the start button.
C19_HintWhenActiveUnplaced ==
  mounted
    => /\ PlaceHint <=> (isARSessionActive /\ ~isObjectPlaced)
       /\ ~(PlaceHint /\ StartButton)

====
